---- MODULE Spec2Model ----
(***************************************************************************)
(* Model of the wound infection-risk core of mattjenkins3/infection-risk-cv *)
(*   backend/src/ml/scoring.py   RiskScorer, SymptomInputs                 *)
(*   backend/src/ml/features.py  FeatureExtractor, FeatureSignals          *)
(*                                                                         *)
(* Python floats are modelled as fixed-point numbers with One units per    *)
(* 1.0, together with the three IEEE-754 special values nan, +inf, -inf.   *)
(* The finite values used below are chosen so that every product and sum   *)
(* is exact in this representation.                                        *)
(***************************************************************************)
EXTENDS Integers, Sequences, FiniteSets, TLC

VARIABLES
    config,         \* the parsed YAML mapping handed to _load_weights
    pc,             \* "new" | "ready" | "returned" | "failed"
    weights,        \* RiskScorer.weights
    signals,        \* argument of the score call in progress / just returned
    symptoms,       \* argument of the score call in progress / just returned
    result,         \* RiskResult of the last score call
    first_results,  \* for the tracked inputs: the RiskResult of their first call,
                    \* followed by that of their latest repeated call
    image,          \* image_bgr handed to FeatureExtractor.extract
    xpc,            \* position inside extract
    grabcut,        \* outcome of cv2.grabCut
    seg_mask,       \* wound_mask before the morphological closing
    wound_mask,     \* wound_mask returned by _segment_wound
    ring,           \* periwound_mask
    features,       \* FeatureSignals returned by extract
    ring_call       \* a direct call of _periwound_ring: the shape of its
                    \* wound_mask and its ring_width

scorer_vars == <<config, pc, weights, signals, symptoms, result, first_results>>
extract_vars == <<image, xpc, grabcut, seg_mask, wound_mask, ring, features, ring_call>>
vars == <<config, pc, weights, signals, symptoms, result, first_results,
          image, xpc, grabcut, seg_mask, wound_mask, ring, features, ring_call>>

None == "None"

(***************************************************************************)
(* Floats                                                                  *)
(***************************************************************************)
One == 10000

Fin(n) == [k |-> "fin", n |-> n]
NaN == [k |-> "nan", n |-> 0]
PInf == [k |-> "inf", n |-> 1]
NInf == [k |-> "inf", n |-> -1]

IsFin(a) == a.k = "fin"
IsNaN(a) == a.k = "nan"
Sign(a) == IF a.n > 0 THEN 1 ELSE IF a.n < 0 THEN -1 ELSE 0

\* a + b
FAdd(a, b) ==
    IF IsNaN(a) \/ IsNaN(b) THEN NaN
    ELSE IF IsFin(a) /\ IsFin(b) THEN Fin(a.n + b.n)
    ELSE IF IsFin(a) THEN b
    ELSE IF IsFin(b) THEN a
    ELSE IF a = b THEN a ELSE NaN

\* a * b
FMul(a, b) ==
    IF IsNaN(a) \/ IsNaN(b) THEN NaN
    ELSE IF IsFin(a) /\ IsFin(b) THEN Fin((a.n * b.n) \div One)
    ELSE IF Sign(a) * Sign(b) = 0 THEN NaN
    ELSE IF Sign(a) * Sign(b) > 0 THEN PInf ELSE NInf

\* a < b, a > b, a >= b : every comparison with nan is False
FLt(a, b) ==
    /\ ~IsNaN(a) /\ ~IsNaN(b)
    /\ IF IsFin(a) /\ IsFin(b) THEN a.n < b.n
       ELSE IF IsFin(a) THEN b = PInf
       ELSE IF IsFin(b) THEN a = NInf
       ELSE a = NInf /\ b = PInf
FGt(a, b) == FLt(b, a)
FGe(a, b) == ~IsNaN(a) /\ ~IsNaN(b) /\ ~FLt(a, b)

\* the builtins max(a, b) and min(a, b): the first argument is kept unless
\* the second compares strictly greater (smaller)
PyMax(a, b) == IF FGt(b, a) THEN b ELSE a
PyMin(a, b) == IF FLt(b, a) THEN b ELSE a

\* f"{value:.2f}" : the number of hundredths nearest to a finite value
Fmt2(a) == IF IsFin(a) THEN (a.n + (One \div 200)) \div (One \div 100) ELSE -1

(***************************************************************************)
(* Names                                                                   *)
(***************************************************************************)
visual_signal_names ==
    <<"periwound_redness", "exudate_proxy", "dark_tissue_proxy", "swelling_proxy">>

symptom_signal_names ==
    <<"reported_pain", "reported_warmth", "reported_swelling",
      "reported_drainage", "reported_spreading_redness">>

Range(s) == {s[i] : i \in DOMAIN s}

\* FeatureSignals.as_dict
FeatureSignals_as_dict(sig) == [name \in Range(visual_signal_names) |-> sig[name]]

\* SymptomInputs.as_dict
SymptomInputs_as_dict(sym) ==
    [name \in Range(symptom_signal_names) |-> IF sym[name] THEN Fin(One) ELSE Fin(0)]

\* dict.get(key, default)
Get(d, key, default) == IF key \in DOMAIN d THEN d[key] ELSE default

\* a decimal literal with three places: F(350) is 0.35
F(thousandths) == Fin(thousandths * (One \div 1000))

(***************************************************************************)
(* RiskScorer                                                              *)
(***************************************************************************)

\* _load_weights: float(value) for one value of the YAML mapping.
\* A YAML value is [t |-> its type, f |-> its numeric value, s |-> its text].
Raise == [k |-> "raise", n |-> 0]

\* float(str): the text is parsed as a number
StrToFloat(s) ==
    CASE s = "0.5" -> F(500)
      [] s = "nan" -> NaN
      [] s = "inf" -> PInf
      [] OTHER -> Raise          \* ValueError

py_float(v) ==
    CASE v.t = "float" -> v.f
      [] v.t = "int" -> v.f
      [] v.t = "bool" -> v.f     \* bool is an int: True is 1.0, False is 0.0
      [] v.t = "str" -> StrToFloat(v.s)
      [] OTHER -> Raise          \* float(None): TypeError

\* _load_weights: {key: float(value) for key, value in data.items()}
load_weights(data) ==
    IF \E key \in DOMAIN data : py_float(data[key]) = Raise
    THEN [ok |-> FALSE, table |-> <<>>]
    ELSE [ok |-> TRUE, table |-> [key \in DOMAIN data |-> py_float(data[key])]]

\* a default of 1.0 in place of 0.0
weight_default_one == Fin(One)

\* the default of self.weights.get(name, 0.0)
weight_default == Fin(0)

\* float(self.weights.get(name, 0.0))
weight_of(w, name) == Get(w, name, weight_default)

\* self.weights.get("bias", 0.0)
bias_of(w) == Get(w, "bias", Fin(0))

\* _signal_note: f"{base} Signal intensity: {value:.2f}."
signal_note(name, value) ==
    LET base ==
        CASE name = "periwound_redness" ->
                "Higher redness near the wound boundary may be associated with irritation."
          [] name = "exudate_proxy" ->
                "Yellow/green coloration can be a proxy for exudate-like appearance."
          [] name = "dark_tissue_proxy" ->
                "Darker regions may indicate non-viable tissue presence."
          [] name = "swelling_proxy" ->
                "Edge sharpness can be a proxy for localized swelling cues."
          [] name = "reported_pain" ->
                "Pain or tenderness near the wound can be a reported symptom of irritation."
          [] name = "reported_warmth" ->
                "A warm or hot sensation around the wound can indicate inflammation."
          [] name = "reported_swelling" ->
                "Swelling around the wound can be a sign of irritation or inflammation."
          [] name = "reported_drainage" ->
                "Drainage or pus-like fluid can be a reported sign of infection."
          [] name = "reported_spreading_redness" ->
                "Redness spreading beyond the wound may indicate inflammation."
          [] OTHER -> "Signal observed in the image."
    IN <<base, "Signal intensity:", Fmt2(value)>>

\* the SignalDetail appended for one item of a signal dict
SignalDetail(w, name, value) ==
    [name |-> name, value |-> value, weight |-> weight_of(w, name),
     note |-> signal_note(name, value)]

\* one for-loop of score: weighted_sum += weight * value over the items, in order
RECURSIVE accumulate(_, _, _, _)
accumulate(w, names, d, acc) ==
    IF names = <<>> THEN acc
    ELSE accumulate(w, Tail(names), d,
                    FAdd(acc, FMul(weight_of(w, Head(names)), d[Head(names)])))

\* the details appended by one for-loop of score
details_of(w, names, d) ==
    [i \in DOMAIN names |-> SignalDetail(w, names[i], d[names[i]])]

\* risk_score = min(max(weighted_sum, 0.0), 1.0)
clamp(weighted_sum) == PyMin(PyMax(weighted_sum, Fin(0)), Fin(One))

\* _risk_level
risk_level(score_value) ==
    IF FGe(score_value, F(660)) THEN "high"
    ELSE IF FGe(score_value, F(330)) THEN "medium"
    ELSE "low"

\* signal_map.get(name, 0.0) for signal_map = {detail.name: detail.value ...}
signal_map_get(details, name) ==
    LET hits == {i \in DOMAIN details : details[i].name = name}
    IN IF hits = {} THEN Fin(0)
       ELSE details[CHOOSE i \in hits : \A j \in hits : j <= i].value

\* a summary that thresholds the weighted contributions, not the raw values
visual_summary_weighted(details) ==
    LET contribution(name) ==
            LET hits == {i \in DOMAIN details : details[i].name = name}
            IN IF hits = {} THEN Fin(0)
               ELSE LET d == details[CHOOSE i \in hits : TRUE]
                    IN FMul(d.weight, d.value)
        cue(name, threshold, text) ==
            IF FGe(contribution(name), threshold) THEN <<text>> ELSE <<>>
        cues == cue("periwound_redness", F(350), "notable redness around the wound edges")
                \o cue("exudate_proxy", F(250), "yellow/green drainage or pus-like coloration")
                \o cue("dark_tissue_proxy", F(200), "darkened tissue inside the wound")
                \o cue("swelling_proxy", F(200), "edge texture changes consistent with swelling")
    IN IF cues # <<>> THEN <<"Visual cues suggest">> \o cues
       ELSE <<"No strong visual cues like redness, drainage, or swelling were detected.">>

\* _visual_summary
visual_summary(details) ==
    LET cue(name, threshold, text) ==
            IF FGe(signal_map_get(details, name), threshold) THEN <<text>> ELSE <<>>
        cues == cue("periwound_redness", F(350), "notable redness around the wound edges")
                \o cue("exudate_proxy", F(250), "yellow/green drainage or pus-like coloration")
                \o cue("dark_tissue_proxy", F(200), "darkened tissue inside the wound")
                \o cue("swelling_proxy", F(200), "edge texture changes consistent with swelling")
    IN IF cues # <<>> THEN <<"Visual cues suggest">> \o cues
       ELSE <<"No strong visual cues like redness, drainage, or swelling were detected.">>

\* symptom_phrases.get(detail.name, ...)
symptom_phrase(name) ==
    CASE name = "reported_pain" -> "pain or tenderness"
      [] name = "reported_warmth" -> "warmth around the wound"
      [] name = "reported_swelling" -> "swelling"
      [] name = "reported_drainage" -> "drainage/pus"
      [] name = "reported_spreading_redness" -> "spreading redness"
      [] OTHER -> name

\* _symptom_summary
symptom_summary(details) ==
    IF details = <<>>
    THEN <<"No concerning symptoms were reported in the questionnaire.">>
    ELSE <<"Reported symptoms include">>
         \o [i \in DOMAIN details |-> symptom_phrase(details[i].name)]

\* _explanation: the f-string, as its parts in order
explanation_of(details, level) ==
    LET is_visual(d) == d.name \in Range(visual_signal_names)
        is_symptom(d) == d.name \in Range(symptom_signal_names) /\ FGt(d.value, F(500))
    IN [level |-> level,
        visual |-> visual_summary(SelectSeq(details, is_visual)),
        symptom |-> symptom_summary(SelectSeq(details, is_symptom)),
        closing |-> "This is a triage support estimate, not a diagnosis."]

\* _recommended_steps
recommended_steps(level) ==
    IF level = "high"
    THEN <<"Consider scheduling a clinical check if symptoms persist or worsen.",
           "Monitor for changes such as increasing redness, swelling, or drainage.">>
    ELSE IF level = "medium"
    THEN <<"Continue monitoring and recheck if the appearance changes.",
           "Seek clinical advice if you are concerned about progression.">>
    ELSE <<"Keep monitoring for noticeable changes over time.",
           "If you have concerns, seek clinical guidance.">>

disclaimer ==
    <<"This output is a non-diagnostic risk estimation for triage support only.",
      "It cannot diagnose infection and should not replace clinical evaluation.">>

\* the raw weighted sum of score, before the clamp
weighted_sum_of(w, sig, sym) ==
    LET visual == accumulate(w, visual_signal_names, FeatureSignals_as_dict(sig), bias_of(w))
    IN IF sym.given
       THEN accumulate(w, symptom_signal_names, SymptomInputs_as_dict(sym), visual)
       ELSE visual

\* RiskScorer.score
score(w, sig, sym) ==
    LET details ==
            details_of(w, visual_signal_names, FeatureSignals_as_dict(sig))
            \o (IF sym.given
                THEN details_of(w, symptom_signal_names, SymptomInputs_as_dict(sym))
                ELSE <<>>)
        risk_score == clamp(weighted_sum_of(w, sig, sym))
        level == risk_level(risk_score)
    IN [risk_score |-> risk_score,
        risk_level |-> level,
        signals |-> details,
        explanation |-> explanation_of(details, level),
        disclaimer |-> disclaimer,
        recommended_next_steps |-> recommended_steps(level)]

\* a score that keeps its sum in the table: self.weights["bias"] = risk_score
weights_after_score_stored(w, res) ==
    [key \in DOMAIN w \cup {"bias"} |-> IF key = "bias" THEN res.risk_score ELSE w[key]]

\* self.weights after a call of score: score assigns nothing to it
weights_after_score(w, res) == w

(***************************************************************************)
(* Inputs of the scorer                                                    *)
(***************************************************************************)
Absent == [t |-> "absent", f |-> Fin(0), s |-> ""]
YFloat(x) == [t |-> "float", f |-> x, s |-> ""]
YInt(n) == [t |-> "int", f |-> Fin(n * One), s |-> ""]
YBool(b) == [t |-> "bool", f |-> IF b THEN Fin(One) ELSE Fin(0), s |-> ""]
YStr(text) == [t |-> "str", f |-> Fin(0), s |-> text]
YNull == [t |-> "null", f |-> Fin(0), s |-> ""]

weight_names == Range(visual_signal_names) \cup Range(symptom_signal_names) \cup {"bias"}
ConfigKeys == weight_names \cup {"version"}

\* the values a key of weights.yaml takes in the configurations explored
ConfigOptions(key) ==
    CASE key = "bias" ->
            {Absent, YFloat(F(330)), YFloat(F(660)), YFloat(F(-500)),
             YFloat(F(5000)), YFloat(NaN), YStr("abc")}
      [] key = "periwound_redness" ->
            {Absent, YFloat(F(500)), YFloat(F(-2000)), YFloat(PInf), YStr("0.5")}
      [] key = "reported_drainage" ->
            {Absent, YFloat(F(400)), YFloat(F(-300)), YBool(TRUE)}
      [] key = "version" -> {Absent, YInt(1), YNull}
      [] key = "exudate_proxy" -> {YFloat(F(300))}
      [] key = "dark_tissue_proxy" -> {YFloat(F(100))}
      [] key = "swelling_proxy" -> {YFloat(F(100))}
      [] key = "reported_pain" -> {YFloat(F(150))}
      [] key = "reported_warmth" -> {YFloat(F(100))}
      [] key = "reported_swelling" -> {YFloat(F(100))}
      [] OTHER -> {YFloat(F(200))}

\* the mapping yaml.safe_load returns for the chosen values
MakeConfig(bias, redness, drainage, version) ==
    LET all == [key \in ConfigKeys |->
                   CASE key = "bias" -> bias
                     [] key = "periwound_redness" -> redness
                     [] key = "reported_drainage" -> drainage
                     [] key = "version" -> version
                     [] OTHER -> CHOOSE v \in ConfigOptions(key) : TRUE]
    IN [key \in {k \in ConfigKeys : all[k] # Absent} |-> all[key]]

MakeSignals(redness, exudate, dark, swelling) ==
    [periwound_redness |-> F(redness), exudate_proxy |-> F(exudate),
     dark_tissue_proxy |-> F(dark), swelling_proxy |-> F(swelling)]

\* FeatureSignals values handed to score
SignalChoices ==
    {MakeSignals(0, 0, 0, 0),
     MakeSignals(900, 100, 100, 100),
     MakeSignals(350, 250, 200, 200),
     MakeSignals(344, 244, 194, 194),
     MakeSignals(0, 250, 0, 200),
     MakeSignals(100, 100, 900, 100),
     MakeSignals(1000, 1000, 1000, 1000)}

\* an Optional[SymptomInputs]: given is FALSE for None
MakeSymptoms(pain, warmth, swelling, drainage, spreading) ==
    [given |-> TRUE, reported_pain |-> pain, reported_warmth |-> warmth, reported_swelling |-> swelling,
     reported_drainage |-> drainage, reported_spreading_redness |-> spreading]

NoSymptoms ==
    [given |-> FALSE, reported_pain |-> FALSE, reported_warmth |-> FALSE,
     reported_swelling |-> FALSE, reported_drainage |-> FALSE,
     reported_spreading_redness |-> FALSE]

\* SymptomInputs values handed to score, and None for no symptoms
SymptomChoices ==
    {NoSymptoms,
     MakeSymptoms(FALSE, FALSE, FALSE, FALSE, FALSE),
     MakeSymptoms(TRUE, FALSE, FALSE, FALSE, FALSE),
     MakeSymptoms(FALSE, TRUE, FALSE, FALSE, FALSE),
     MakeSymptoms(FALSE, FALSE, TRUE, FALSE, FALSE),
     MakeSymptoms(FALSE, FALSE, FALSE, TRUE, FALSE),
     MakeSymptoms(FALSE, FALSE, FALSE, FALSE, TRUE),
     MakeSymptoms(TRUE, FALSE, FALSE, TRUE, FALSE),
     MakeSymptoms(TRUE, TRUE, TRUE, TRUE, TRUE)}

\* the inputs whose first RiskResult is remembered
Tracked ==
    {[signals |-> MakeSignals(900, 100, 100, 100), symptoms |-> NoSymptoms],
     [signals |-> MakeSignals(0, 0, 0, 0),
      symptoms |-> MakeSymptoms(FALSE, FALSE, FALSE, TRUE, FALSE)]}

(***************************************************************************)
(* The extractor at rest (the scorer's specification leaves it alone)      *)
(***************************************************************************)
ExtractIdle ==
    /\ image = None /\ xpc = "idle" /\ grabcut = None /\ seg_mask = None
    /\ wound_mask = None /\ ring = None /\ features = None
    /\ ring_call = None

(***************************************************************************)
(* The scorer's life: construction, then any number of score calls         *)
(***************************************************************************)
Init ==
    /\ \E bias \in ConfigOptions("bias"), redness \in ConfigOptions("periwound_redness"),
          drainage \in ConfigOptions("reported_drainage"), version \in ConfigOptions("version") :
          config = MakeConfig(bias, redness, drainage, version)
    /\ pc = "new"
    /\ weights = None
    /\ signals = None /\ symptoms = None /\ result = None
    /\ first_results = [t \in Tracked |-> <<>>]
    /\ ExtractIdle

\* RiskScorer.__init__: an exception of _load_weights leaves no scorer
Construct ==
    /\ pc = "new"
    /\ LET loaded == load_weights(config)
       IN IF loaded.ok
          THEN pc' = "ready" /\ weights' = loaded.table
          ELSE pc' = "failed" /\ weights' = weights
    /\ UNCHANGED <<config, signals, symptoms, result, first_results>>
    /\ UNCHANGED extract_vars

\* RiskScorer.score(sig, sym)
Score(sig, sym) ==
    /\ pc = "ready"
    /\ LET res == score(weights, sig, sym)
           call == [signals |-> sig, symptoms |-> sym]
       IN /\ result' = res
          /\ weights' = weights_after_score(weights, res)
          /\ first_results' =
                IF call \notin Tracked THEN first_results
                ELSE IF first_results[call] = <<>>
                THEN [first_results EXCEPT ![call] = <<res>>]
                ELSE [first_results EXCEPT ![call] = <<first_results[call][1], res>>]
    /\ signals' = sig /\ symptoms' = sym
    /\ pc' = "returned"
    /\ UNCHANGED config
    /\ UNCHANGED extract_vars

\* the caller takes the RiskResult; the scorer is ready for the next call
Deliver ==
    /\ pc = "returned"
    /\ pc' = "ready"
    /\ signals' = None /\ symptoms' = None /\ result' = None
    /\ UNCHANGED <<config, weights, first_results>>
    /\ UNCHANGED extract_vars

Next ==
    \/ Construct
    \/ \E sig \in SignalChoices, sym \in SymptomChoices : Score(sig, sym)
    \/ Deliver

Spec == Init /\ [][Next]_vars

(***************************************************************************)
(* Claims about the scorer                                                 *)
(***************************************************************************)
Built == pc \in {"ready", "returned"}
Returned == pc = "returned"
Has(seq, x) == \E i \in DOMAIN seq : seq[i] = x
FiniteTable(w) == \A key \in DOMAIN w : IsFin(w[key])

\* C1: every risk_score returned by score lies in [0.0, 1.0]; a raw weighted
\* sum below 0.0 gives exactly 0.0 and one above 1.0 gives exactly 1.0.
C1_ScoreInUnitInterval ==
    Returned =>
        LET raw == weighted_sum_of(weights, signals, symptoms)
        IN /\ FGe(result.risk_score, Fin(0))
           /\ FGe(Fin(One), result.risk_score)
           /\ FLt(raw, Fin(0)) => result.risk_score = Fin(0)
           /\ FGt(raw, Fin(One)) => result.risk_score = Fin(One)

\* C1 restricted to weight tables whose values are all finite (holds).
C1_FiniteTables == (Returned /\ FiniteTable(weights)) => C1_ScoreInUnitInterval

\* C2: risk_level is "low" iff risk_score < 0.33, "medium" iff
\* 0.33 <= risk_score < 0.66, "high" iff risk_score >= 0.66, and nothing else.
C2_LevelThresholds ==
    Returned =>
        LET x == result.risk_score
            level == result.risk_level
        IN /\ level \in {"low", "medium", "high"}
           /\ level = "low" <=> FLt(x, F(330))
           /\ level = "medium" <=> (FGe(x, F(330)) /\ FLt(x, F(660)))
           /\ level = "high" <=> FGe(x, F(660))

\* C2 restricted to weight tables whose values are all finite (holds).
C2_FiniteTables == (Returned /\ FiniteTable(weights)) => C2_LevelThresholds

\* C4: a scorer exists (and score is reachable) only if every value of the
\* weight configuration is a number; strings, booleans and null fail construction.
C4_NonNumericFailsConstruction ==
    Built => \A key \in DOMAIN config : config[key].t \in {"int", "float"}

\* C6: with non-negative symptom weights, setting a false symptom flag to true
\* never lowers the risk_score.
C6_SymptomMonotone ==
    (/\ Returned
     /\ symptoms.given
     /\ \A name \in Range(symptom_signal_names) : FGe(weight_of(weights, name), Fin(0)))
    => \A flag \in Range(symptom_signal_names) :
          ~symptoms[flag] =>
              FGe(score(weights, signals, [symptoms EXCEPT ![flag] = TRUE]).risk_score,
                  result.risk_score)

\* C6 restricted to weight tables whose values are all finite (holds).
C6_FiniteTables == (Returned /\ FiniteTable(weights)) => C6_SymptomMonotone

Completed(w) ==
    [key \in DOMAIN w \cup weight_names |-> IF key \in DOMAIN w THEN w[key] ELSE Fin(0)]

\* the table without the keys that are none of the ten names
Restricted(w) == [key \in DOMAIN w \cap weight_names |-> w[key]]

\* C9: the RiskResult is that of the table completed with 0.0 for every
\* missing name and bias, and that of the table without its extra keys.
C9_MissingKeysAreZero ==
    Returned =>
        /\ result = score(Completed(weights), signals, symptoms)
        /\ result = score(Restricted(weights), signals, symptoms)
        /\ \A i \in DOMAIN result.signals :
              result.signals[i].name \notin DOMAIN weights
              => result.signals[i].weight = Fin(0)

\* C9 witness: a visual weight, a symptom weight and the bias are missing, an
\* extra key is present, and the unweighted signals are not zero.
C9_Witness ==
    /\ Returned
    /\ {"periwound_redness", "reported_drainage", "bias"} \cap DOMAIN weights = {}
    /\ "version" \in DOMAIN weights
    /\ signals["periwound_redness"] = F(900)
    /\ symptoms["reported_drainage"]

\* C10: the explanation names the level, holds each visual clause exactly when
\* the raw signal reaches its threshold, each symptom phrase exactly when the
\* flag is true, and the two fixed sentences exactly when nothing qualifies.
C10_ExplanationFromRawValues ==
    Returned =>
        LET e == result.explanation
            red == FGe(signals["periwound_redness"], F(350))
            exu == FGe(signals["exudate_proxy"], F(250))
            dark == FGe(signals["dark_tissue_proxy"], F(200))
            swell == FGe(signals["swelling_proxy"], F(200))
            flag(name) == symptoms.given /\ symptoms[name]
        IN /\ e.level = result.risk_level
           /\ Has(e.visual, "notable redness around the wound edges") <=> red
           /\ Has(e.visual, "yellow/green drainage or pus-like coloration") <=> exu
           /\ Has(e.visual, "darkened tissue inside the wound") <=> dark
           /\ Has(e.visual, "edge texture changes consistent with swelling") <=> swell
           /\ Has(e.visual, "No strong visual cues like redness, drainage, or swelling were detected.")
                <=> ~(red \/ exu \/ dark \/ swell)
           /\ Has(e.symptom, "pain or tenderness") <=> flag("reported_pain")
           /\ Has(e.symptom, "warmth around the wound") <=> flag("reported_warmth")
           /\ Has(e.symptom, "swelling") <=> flag("reported_swelling")
           /\ Has(e.symptom, "drainage/pus") <=> flag("reported_drainage")
           /\ Has(e.symptom, "spreading redness") <=> flag("reported_spreading_redness")
           /\ Has(e.symptom, "No concerning symptoms were reported in the questionnaire.")
                <=> ~(\E name \in Range(symptom_signal_names) : flag(name))

\* C10 witness: redness 0.9 without symptoms under a table whose redness
\* weight is negative: the redness clause and the no-symptoms sentence appear.
C10_Witness ==
    /\ Returned
    /\ signals = MakeSignals(900, 100, 100, 100)
    /\ ~symptoms.given
    /\ FLt(weight_of(weights, "periwound_redness"), Fin(0))
    /\ result.explanation.visual =
          <<"Visual cues suggest", "notable redness around the wound edges">>
    /\ result.explanation.symptom =
          <<"No concerning symptoms were reported in the questionnaire.">>

(***************************************************************************)
(* FeatureExtractor                                                        *)
(*                                                                         *)
(* An image is [h, w, px]: px maps each cell <<row, col>> to its <<B, G, R>>.*)
(* A mask maps each cell to a uint8.  The OpenCV calls are modelled by     *)
(* what they compute on 8-bit images.                                     *)
(***************************************************************************)
MaxPixels == 6

Cells(h, w) == (0 .. h - 1) \X (0 .. w - 1)
CellsOf(img) == Cells(img.h, img.w)

\* the colours of the images explored: black, the red of the tests, a yellow
Palette == {<<0, 0, 0>>, <<10, 10, 200>>, <<40, 200, 200>>}

ImageShapes ==
    {shape \in (1 .. MaxPixels) \X (1 .. MaxPixels) :
        shape[1] <= shape[2] /\ shape[1] * shape[2] <= MaxPixels}

Max2(a, b) == IF a >= b THEN a ELSE b
Min2(a, b) == IF a <= b THEN a ELSE b
\* x / y rounded to the nearest integer, for x >= 0 and y > 0
RoundDiv(x, y) == (2 * x + y) \div (2 * y)

\* cv2.cvtColor(image_bgr, cv2.COLOR_BGR2HSV) on one pixel: <<h, s, v>> with
\* h in 0..179 (degrees / 2), s and v in 0..255
BGR2HSV(p) ==
    LET b == p[1]
        g == p[2]
        r == p[3]
        v == Max2(r, Max2(g, b))
        diff == v - Min2(r, Min2(g, b))
        sat == IF v = 0 THEN 0 ELSE RoundDiv(255 * diff, v)
        deg == IF diff = 0 THEN 0
               ELSE IF v = r THEN
                    (IF g >= b THEN RoundDiv(60 * (g - b), diff)
                     ELSE 360 - RoundDiv(60 * (b - g), diff))
               ELSE IF v = g THEN
                    (IF b >= r THEN 120 + RoundDiv(60 * (b - r), diff)
                     ELSE 120 - RoundDiv(60 * (r - b), diff))
               ELSE (IF r >= g THEN 240 + RoundDiv(60 * (r - g), diff)
                     ELSE 240 - RoundDiv(60 * (g - r), diff))
    IN <<(deg \div 2) % 180, sat, v>>

\* cv2.cvtColor(image_bgr, cv2.COLOR_BGR2GRAY) on one pixel
BGR2GRAY(p) == RoundDiv(114 * p[1] + 587 * p[2] + 299 * p[3], 1000)

\* BORDER_REFLECT_101: the index inside 0..n-1 that position i reads
Reflect101(i, n) ==
    IF n = 1 THEN 0
    ELSE LET q == i % (2 * (n - 1))
         IN IF q >= n THEN 2 * (n - 1) - q ELSE q

\* cv2.GaussianBlur(gray, (5, 5), 0): the fixed kernel (1 4 6 4 1) / 16 on
\* rows and columns
GaussianKernel5 == <<1, 4, 6, 4, 1>>

RECURSIVE SumOver(_, _)
SumOver(f, S) ==
    IF S = {} THEN 0
    ELSE LET x == CHOOSE y \in S : TRUE IN f[x] + SumOver(f, S \ {x})

\* an array, computed once (TLC otherwise recomputes an element at every read)
Array(f) == IF f = f THEN f ELSE f

GaussianBlur5(gray, h, w) ==
    Array([cell \in Cells(h, w) |->
        LET taps == (1 .. 5) \X (1 .. 5)
            term == [t \in taps |->
                        GaussianKernel5[t[1]] * GaussianKernel5[t[2]]
                        * gray[<<Reflect101(cell[1] + t[1] - 3, h),
                                 Reflect101(cell[2] + t[2] - 3, w)>>]]
        IN RoundDiv(SumOver(term, taps), 256)])

\* cv2.threshold(blur, 0, 255, THRESH_BINARY + THRESH_OTSU): the level Otsu's
\* method picks (the lowest level of greatest between-class variance, 0 when
\* the image has one level), then 255 above it and 0 elsewhere
OtsuLevel(blur, cells) ==
    LET levels == {blur[c] : c \in cells}
        top == CHOOSE l \in levels : \A m \in levels : m <= l
        cands == levels \ {top}
        low(t) == {c \in cells : blur[c] <= t}
        n1(t) == Cardinality(low(t))
        n2(t) == Cardinality(cells) - n1(t)
        a(t) == SumOver(blur, low(t)) * n2(t) - SumOver(blur, cells \ low(t)) * n1(t)
        \* variance(t) > variance(u), cross-multiplied
        better(t, u) == a(t) * a(t) * n1(u) * n2(u) > a(u) * a(u) * n1(t) * n2(t)
    IN IF cands = {} THEN 0
       ELSE CHOOSE t \in cands :
                \A u \in cands \ {t} : better(t, u) \/ (~better(u, t) /\ t < u)

ThresholdOtsu(blur, cells) ==
    LET t == OtsuLevel(blur, cells)
    IN [c \in cells |-> IF blur[c] > t THEN 255 ELSE 0]

\* the window of a ksize x ksize structuring element anchored at its centre
\* (ksize \div 2), clipped to the image: the border never contributes
Window(cell, ksize, h, w) ==
    {d \in Cells(h, w) :
        /\ d[1] - cell[1] \in (0 - (ksize \div 2)) .. (ksize - 1 - (ksize \div 2))
        /\ d[2] - cell[2] \in (0 - (ksize \div 2)) .. (ksize - 1 - (ksize \div 2))}

SetMax(S) == CHOOSE x \in S : \A y \in S : y <= x
SetMin(S) == CHOOSE x \in S : \A y \in S : x <= y

\* cv2.dilate(mask, np.ones((ksize, ksize)), iterations=1)
dilate(mask, ksize, h, w) ==
    [cell \in Cells(h, w) |-> SetMax({mask[d] : d \in Window(cell, ksize, h, w)})]

\* cv2.erode(mask, np.ones((ksize, ksize)), iterations=1)
erode(mask, ksize, h, w) ==
    [cell \in Cells(h, w) |-> SetMin({mask[d] : d \in Window(cell, ksize, h, w)})]

\* cv2.morphologyEx(mask, cv2.MORPH_CLOSE, np.ones((5, 5)))
morph_close(mask, h, w) == erode(dilate(mask, 5, h, w), 5, h, w)

\* rect = (int(width * 0.1), int(height * 0.1), int(width * 0.8), int(height * 0.8)):
\* the cells inside the rectangle
rect_cells(h, w) ==
    {cell \in Cells(h, w) :
        /\ cell[2] >= w \div 10 /\ cell[2] < (w \div 10) + ((8 * w) \div 10)
        /\ cell[1] >= h \div 10 /\ cell[1] < (h \div 10) + ((8 * h) \div 10)}

\* the label arrays cv2.grabCut leaves in mask under GC_INIT_WITH_RECT:
\* GC_BGD (0) outside the rectangle, any of the four labels inside it
GrabCutLabels(h, w) ==
    {[cell \in Cells(h, w) |-> IF cell \in rect_cells(h, w) THEN inside[cell] ELSE 0] :
        inside \in [rect_cells(h, w) -> 0 .. 3]}

\* np.where((mask == cv2.GC_FGD) | (mask == cv2.GC_PR_FGD), 1, 0)
foreground(labels) == [cell \in DOMAIN labels |-> IF labels[cell] \in {1, 3} THEN 1 ELSE 0]

\* _fallback_otsu: (thresh == 0).astype("uint8")
fallback_otsu(img) ==
    LET gray == Array([cell \in CellsOf(img) |-> BGR2GRAY(img.px[cell])])
        blur == GaussianBlur5(gray, img.h, img.w)
        thresh == ThresholdOtsu(blur, CellsOf(img))
    IN [cell \in CellsOf(img) |-> IF thresh[cell] = 0 THEN 1 ELSE 0]

\* what a failing cv2.grabCut raises: the binding turns every C++ exception
\* of the call (cv::Exception, std::exception, anything else) into cv2.error
GrabCutFailures == {"cv2.error"}

\* a handler for another exception class: except ValueError
caught_value_error(exc) == exc = "ValueError"

\* except cv2.error: the exceptions the handler of _segment_wound catches
caught(exc) == exc = "cv2.error"

\* a ring taken against the wound itself: np.clip(dilated - wound_mask, 0, 1)
periwound_ring_outer(mask, width, h, w) ==
    LET dilated == dilate(mask, width, h, w)
    IN [cell \in Cells(h, w) |-> Min2(Max2((dilated[cell] - mask[cell]) % 256, 0), 1)]

\* _periwound_ring: np.clip(dilated - eroded, 0, 1) in uint8 arithmetic
periwound_ring(mask, width, h, w) ==
    LET dilated == dilate(mask, width, h, w)
        eroded == erode(mask, width, h, w)
    IN [cell \in Cells(h, w) |-> Min2(Max2((dilated[cell] - eroded[cell]) % 256, 0), 1)]

\* mask.astype(bool): the cells of the region
region_of(mask) == {cell \in DOMAIN mask : mask[cell] # 0}

\* float(marked[region].mean()) as the fraction it is; 0.0 is 0/1
Frac(num, den) == [num |-> num, den |-> den]

\* a whole-image measurement: marked.sum() / region.sum()
mean_whole_image(marked, region) == Frac(Cardinality(marked), Cardinality(region))

mean_in(marked, region) == Frac(Cardinality(marked \cap region), Cardinality(region))

\* ((h < 10) | (h > 160)) & (s > 80)
red_mask(img) ==
    {cell \in CellsOf(img) :
        LET hsv == BGR2HSV(img.px[cell])
        IN (hsv[1] < 10 \/ hsv[1] > 160) /\ hsv[2] > 80}

\* (h > 20) & (h < 90) & (s > 60) & (v > 80)
exudate_mask(img) ==
    {cell \in CellsOf(img) :
        LET hsv == BGR2HSV(img.px[cell])
        IN hsv[1] > 20 /\ hsv[1] < 90 /\ hsv[2] > 60 /\ hsv[3] > 80}

\* v < 40
dark_mask(img) == {cell \in CellsOf(img) : BGR2HSV(img.px[cell])[3] < 40}

\* _periwound_redness
periwound_redness(img, periwound_mask) ==
    IF Cardinality(region_of(periwound_mask)) = 0 THEN Frac(0, 1)
    ELSE mean_in(red_mask(img), region_of(periwound_mask))

\* _exudate_proxy without its guard: the mean of an empty selection is nan (0/0)
exudate_proxy_unguarded(img, mask) == mean_in(exudate_mask(img), region_of(mask))

\* _exudate_proxy
exudate_proxy(img, mask) ==
    IF Cardinality(region_of(mask)) = 0 THEN Frac(0, 1)
    ELSE mean_in(exudate_mask(img), region_of(mask))

\* _dark_tissue_proxy
dark_tissue_proxy(img, mask) ==
    IF Cardinality(region_of(mask)) = 0 THEN Frac(0, 1)
    ELSE mean_in(dark_mask(img), region_of(mask))

\* _swelling_proxy, for the edge image cv2.Canny returned (0 or 255 per cell)
swelling_proxy(edges, periwound_mask) ==
    IF Cardinality(region_of(periwound_mask)) = 0 THEN Frac(0, 1)
    ELSE mean_in({cell \in DOMAIN edges : edges[cell] > 0}, region_of(periwound_mask))

(***************************************************************************)
(* FeatureExtractor.extract, step by step                                  *)
(***************************************************************************)
ring_width == 18

ScorerIdle ==
    /\ config = <<>> /\ pc = "idle" /\ weights = None /\ signals = None
    /\ symptoms = None /\ result = None /\ first_results = <<>>

InitExtract ==
    /\ \E shape \in ImageShapes :
          \E px \in [Cells(shape[1], shape[2]) -> Palette] :
              image = [h |-> shape[1], w |-> shape[2], px |-> px]
    /\ xpc = "start"
    /\ grabcut = None /\ seg_mask = None /\ wound_mask = None
    /\ ring = None /\ features = None
    /\ ring_call = None
    /\ ScorerIdle

\* _segment_wound, cv2.grabCut returning: the try block, then the closing
SegmentGrabCut ==
    /\ xpc = "start"
    /\ \E labels \in GrabCutLabels(image.h, image.w) :
          /\ seg_mask' = foreground(labels)
          /\ wound_mask' = morph_close(seg_mask', image.h, image.w)
    /\ grabcut' = "ok"
    /\ xpc' = "segmented"
    /\ UNCHANGED <<image, ring, features, ring_call>>
    /\ UNCHANGED scorer_vars

\* _segment_wound, cv2.grabCut raising: the handler's fallback, then the
\* closing; an exception the handler does not catch leaves extract
SegmentFallback ==
    /\ xpc = "start"
    /\ \E exc \in GrabCutFailures :
          /\ grabcut' = exc
          /\ IF caught(exc)
             THEN /\ seg_mask' = fallback_otsu(image)
                  /\ wound_mask' = morph_close(seg_mask', image.h, image.w)
                  /\ xpc' = "segmented"
             ELSE /\ xpc' = "raised"
                  /\ UNCHANGED <<seg_mask, wound_mask>>
    /\ UNCHANGED <<image, ring, features, ring_call>>
    /\ UNCHANGED scorer_vars

\* periwound_mask = self._periwound_ring(wound_mask, ring_width=18)
PeriwoundRing ==
    /\ xpc = "segmented"
    /\ ring' = periwound_ring(wound_mask, ring_width, image.h, image.w)
    /\ xpc' = "ringed"
    /\ UNCHANGED <<image, grabcut, seg_mask, wound_mask, features, ring_call>>
    /\ UNCHANGED scorer_vars

\* the four proxies and the FeatureSignals returned; cv2.Canny's edge image
\* is any array of 0 and 255
Measure ==
    /\ xpc = "ringed"
    /\ \E edges \in [CellsOf(image) -> {0, 255}] :
          features' =
              [periwound_redness |-> periwound_redness(image, ring),
               exudate_proxy |-> exudate_proxy(image, wound_mask),
               dark_tissue_proxy |-> dark_tissue_proxy(image, wound_mask),
               swelling_proxy |-> swelling_proxy(edges, ring)]
    /\ xpc' = "done"
    /\ UNCHANGED <<image, grabcut, seg_mask, wound_mask, ring, ring_call>>
    /\ UNCHANGED scorer_vars

NextExtract ==
    \/ SegmentGrabCut
    \/ SegmentFallback
    \/ PeriwoundRing
    \/ Measure

SpecExtract == InitExtract /\ [][NextExtract]_vars

(***************************************************************************)
(* Claims about the extractor                                              *)
(***************************************************************************)
Segmented == xpc \in {"segmented", "ringed", "done"}
Extracted == xpc = "done"
Zero == Frac(0, 1)

\* what each signal is measured in: the ring for redness and swelling, the
\* wound mask for exudate and dark tissue
RegionFor(name) ==
    IF name \in {"periwound_redness", "swelling_proxy"}
    THEN region_of(ring) ELSE region_of(wound_mask)

\* C3: each of the four values of extract lies in [0.0, 1.0]: it is the number
\* of marked pixels inside its region over the number of pixels of that
\* region, or 0.0 for an empty region.
C3_SignalsAreRegionFractions ==
    Extracted =>
        /\ \A name \in Range(visual_signal_names) :
              /\ features[name].den >= 1
              /\ 0 <= features[name].num /\ features[name].num <= features[name].den
              /\ IF RegionFor(name) = {} THEN features[name] = Zero
                 ELSE features[name].den = Cardinality(RegionFor(name))
        /\ region_of(ring) # {} =>
              features["periwound_redness"].num
                  = Cardinality({c \in region_of(ring) : c \in red_mask(image)})
        /\ region_of(wound_mask) # {} =>
              /\ features["exudate_proxy"].num
                    = Cardinality({c \in region_of(wound_mask) : c \in exudate_mask(image)})
              /\ features["dark_tissue_proxy"].num
                    = Cardinality({c \in region_of(wound_mask) : c \in dark_mask(image)})

\* C3 witness: the wound mask is a proper part of the image, pixels outside it
\* are marked, and a signal lies strictly between 0 and 1.
C3_Witness ==
    /\ Extracted
    /\ region_of(wound_mask) # {}
    /\ region_of(wound_mask) # CellsOf(image)
    /\ exudate_mask(image) \ region_of(wound_mask) # {}
    /\ 0 < features["exudate_proxy"].num
    /\ features["exudate_proxy"].num < features["exudate_proxy"].den

\* the blurred grey image the fallback thresholds
BlurredGray(img) ==
    GaussianBlur5(Array([cell \in CellsOf(img) |-> BGR2GRAY(img.px[cell])]), img.h, img.w)

C8_EmptyRegionGivesZero ==
    /\ (xpc \in {"ringed", "done"} /\ region_of(wound_mask) = {}) => region_of(ring) = {}
    /\ Extracted =>
          /\ region_of(wound_mask) = {} =>
                \A name \in Range(visual_signal_names) : features[name] = Zero
          /\ \A name \in Range(visual_signal_names) :
                RegionFor(name) = {} => features[name] = Zero

\* C8 witness: extract returned for an image that is not black, with an
\* empty wound mask.
C8_Witness ==
    /\ Extracted
    /\ region_of(wound_mask) = {}
    /\ \E c \in CellsOf(image) : image.px[c] # <<0, 0, 0>>

(***************************************************************************)
(* FeatureExtractor._periwound_ring called on its own: any binary mask,    *)
(* any kernel width up to MaxRingWidth and the width extract passes        *)
(***************************************************************************)
MaxRingWidth == 3

RingWidths == (1 .. MaxRingWidth) \cup {ring_width}

InitRing ==
    /\ \E shape \in ImageShapes, width \in RingWidths :
          /\ ring_call = [h |-> shape[1], w |-> shape[2], width |-> width]
          /\ wound_mask \in [Cells(shape[1], shape[2]) -> {0, 1}]
    /\ xpc = "ring_call"
    /\ image = None /\ grabcut = None /\ seg_mask = None
    /\ ring = None /\ features = None
    /\ ScorerIdle

\* the whole of _periwound_ring: kernel, dilate, erode, subtract, clip
RingReturn ==
    /\ xpc = "ring_call"
    /\ ring' = periwound_ring(wound_mask, ring_call.width, ring_call.h, ring_call.w)
    /\ xpc' = "ring_returned"
    /\ UNCHANGED <<image, grabcut, seg_mask, wound_mask, features, ring_call>>
    /\ UNCHANGED scorer_vars

NextRing == RingReturn

SpecRing == InitRing /\ [][NextRing]_vars

RingReturned == xpc = "ring_returned"

\* cv2.dilate and cv2.erode of the call's mask, as _periwound_ring takes them
Dilated == dilate(wound_mask, ring_call.width, ring_call.h, ring_call.w)
Eroded == erode(wound_mask, ring_call.width, ring_call.h, ring_call.w)

\* C11: for a binary wound mask the ring _periwound_ring returns has every
\* cell in {0,1} and is 1 exactly where the dilated mask is 1 and the eroded
\* mask is 0; the eroded mask is at most the dilated mask at every cell, so
\* the 8-bit difference dilated - eroded is the integer difference (no wrap);
\* the ring has no cell of the eroded mask and no cell outside the dilated
\* mask.
C11_RingIsDilatedMinusEroded ==
    RingReturned =>
        LET dilated == Array(Dilated)
            eroded == Array(Eroded)
        IN \A cell \in Cells(ring_call.h, ring_call.w) :
              /\ ring[cell] \in {0, 1}
              /\ ring[cell] = 1 <=> (dilated[cell] = 1 /\ eroded[cell] = 0)
              /\ eroded[cell] <= dilated[cell]
              /\ (dilated[cell] - eroded[cell]) % 256 = dilated[cell] - eroded[cell]
              /\ eroded[cell] = 1 => ring[cell] = 0
              /\ dilated[cell] = 0 => ring[cell] = 0

\* C11 witness: a returned ring that is a proper band: it has a cell, the
\* eroded interior has a cell, a wound cell outside the interior lies in the
\* ring, and a cell outside the dilated mask exists.
C11_Witness ==
    /\ RingReturned
    /\ \E c \in DOMAIN ring : ring[c] = 1 /\ wound_mask[c] = 1
    /\ \E c \in DOMAIN ring : Eroded[c] = 1 /\ ring[c] = 0
    /\ \E c \in DOMAIN ring : Dilated[c] = 0 /\ ring[c] = 0

====
